---- MODULE Spec2Model ----
(***************************************************************************)
(* A model of the Quantum Variational Rewinding tutorial                   *)
(* (demonstrations/tutorial_univariate_qvr.py): the threshold labelling,   *)
(* the DataGetter batch cycler, the atomized training set, the diagonal    *)
(* Walsh circuit D, the probability circuit get_probs, the loss, the       *)
(* anomaly score, the script's three dispatches and the box plot of the    *)
(* scores; and of the quantum chemistry tutorial                           *)
(* (demonstrations/tutorial_quantum_chemistry.py): the active space and    *)
(* the two ways of building the qubit Hamiltonian.                         *)
(*                                                                         *)
(* Each part of the tutorial has its own specification over the same       *)
(* variables; the variables of the other parts stay at their idle values.  *)
(* Python indices are 0-based; sequences here are 1-based, so Python's     *)
(* index j is position j + 1.                                              *)
(***************************************************************************)
EXTENDS Integers, Sequences, FiniteSets, TLC

VARIABLES
    \* get_preds_given_threshold
    zeta, scores, preds, pcPreds,
    \* DataGetter
    X, batch_size, data, returned, outcome, calls, reloaded, window,
    \* make_atomized_training_set
    atomX, atomT, atomized, pcAtom,
    \* D and the circuit it queues
    n_qubits, k, tape, reads, pos, wires, wires0, support, rzlog, pcD,
    \* get_probs and the projector
    xt, t, alpha, gamma, oplog, probs, proj, pcProbs,
    \* get_loss
    X_batch, T_batch, mu, sigma, tau, n_samples, iLoss, loss, Fcalls,
    lossResult, pcLoss,
    \* get_anomaly_score
    score_x, score_T, get_time_resolved, iScore, scoreTerms, scoreCalls,
    scoreResult, pcScore,
    \* the script's three dispatches against the Covalent server
    line32, pcScript, server, lattice, latticeIn, latticeOut, results_dict,
    accs_list, events,
    \* quantum chemistry script
    electrons, orbitals, active_electrons, active_orbitals, core, active,
    h2o_xyz, symbols, coordinates, hf_file, no_core_orbitals, all_active,
    qubit_hamiltonian, H, qubits, pcChem,
    \* box plot of the validation scores
    num_series, norm_scores, anom_scores, scores_list, boxNormal,
    boxAnomalous, boxIndices, pcPlot

predsVars  == <<zeta, scores, preds, pcPreds>>
getterVars == <<X, batch_size, data, returned, outcome, calls, reloaded, window>>
atomVars   == <<atomX, atomT, atomized, pcAtom>>
dVars      == <<n_qubits, k, tape, reads, pos, wires, wires0, support, rzlog, pcD>>
probsVars  == <<xt, t, alpha, gamma, oplog, probs, proj, pcProbs>>
lossVars   == <<X_batch, T_batch, mu, sigma, tau, n_samples, iLoss, loss,
                Fcalls, lossResult, pcLoss>>
scoreVars  == <<score_x, score_T, get_time_resolved, iScore, scoreTerms, scoreCalls,
                scoreResult, pcScore>>
flowVars   == <<line32, pcScript, server, lattice, latticeIn, latticeOut,
                results_dict, accs_list, events>>
spaceVars  == <<electrons, orbitals, active_electrons, active_orbitals,
                core, active>>
buildVars  == <<h2o_xyz, symbols, coordinates, hf_file, no_core_orbitals,
                all_active, qubit_hamiltonian, H, qubits>>
chemVars   == <<spaceVars, buildVars, pcChem>>
plotVars   == <<num_series, norm_scores, anom_scores, scores_list, boxNormal,
                boxAnomalous, boxIndices, pcPlot>>
laterVars  == <<scoreVars, flowVars, chemVars, plotVars>>
qvrVars    == <<predsVars, getterVars, atomVars, dVars>>
vars == <<predsVars, getterVars, atomVars, dVars, probsVars, lossVars, laterVars>>

----------------------------------------------------------------------------
(* Bounds of the model *)

MaxScores == 3      \* longest score vector
MaxScoreVal == 2    \* scores and thresholds are drawn from 0 .. MaxScoreVal
MaxN == 4           \* largest data set handed to a DataGetter
MaxBatch == 3       \* largest batch_size
MaxCalls == 7       \* next() calls followed on one DataGetter
MaxSeries == 2      \* most time series in a training set
MaxP == 2           \* most time points of a series
MaxQubits == 3      \* most wires of a circuit
MaxBatchLen == 2    \* most elements of a batch handed to get_loss
MaxSamples == 2     \* most gamma samples F averages over
QuarterTurn == 3    \* angles are counted in steps of (pi/2) / QuarterTurn

ObsVals == {0, 1}   \* values of the observations x_t
TimeVals == {1, 2}  \* values of the times t

----------------------------------------------------------------------------
(* Generic helpers *)

SeqsUpTo(S, n) == UNION {[1..len -> S] : len \in 0..n}

Range(s) == {s[i] : i \in 1..Len(s)}

Min(a, b) == IF a <= b THEN a ELSE b

RECURSIVE Flatten(_)
Flatten(ss) == IF ss = <<>> THEN <<>> ELSE Head(ss) \o Flatten(Tail(ss))

Permutations1(n) == {f \in [1..n -> 1..n] : \A i, j \in 1..n : f[i] = f[j] => i = j}

----------------------------------------------------------------------------
(* get_preds_given_threshold (lines 804-806)                               *)

PredsIdle == zeta = 0 /\ scores = <<>> /\ preds = <<>> /\ pcPreds = "idle"

\* the comparison with >= in place of >
LabelGeq(score, z) == IF score >= z THEN -1 ELSE 1

\* -1 if score > zeta else 1
Label(score, z) == IF score > z THEN -1 ELSE 1

\* torch.tensor([... for score in scores])
PredsGivenThreshold(z, sc) == [i \in 1..Len(sc) |-> Label(sc[i], z)]

GetPredsGivenThreshold ==
    /\ pcPreds = "call"
    /\ preds' = PredsGivenThreshold(zeta, scores)
    /\ pcPreds' = "done"
    /\ UNCHANGED <<zeta, scores, getterVars, atomVars, dVars, probsVars, lossVars, laterVars>>

----------------------------------------------------------------------------
(* DataGetter (lines 333-388)                                              *)

GetterIdle ==
    /\ X = <<>> /\ batch_size = 0 /\ data = <<>> /\ returned = <<>>
    /\ outcome = "idle" /\ calls = 0 /\ reloaded = FALSE /\ window = <<>>

\* ceil(N / batch_size)
CeilDiv(a, b) == (a + b - 1) \div b

\* a DataLoader with drop_last=True: the short last batch is dropped
BatchesDropLast(perm, bs) ==
    [b \in 1..(Len(perm) \div bs) |-> SubSeq(perm, (b - 1) * bs + 1, b * bs)]

\* torch.utils.data.DataLoader(X, batch_size, shuffle=True), drop_last=False:
\* the shuffled order cut into consecutive batches, the last one short when
\* batch_size does not divide len(X)
Batches(perm, bs) ==
    [b \in 1..CeilDiv(Len(perm), bs) |->
        SubSeq(perm, (b - 1) * bs + 1, Min(b * bs, Len(perm)))]

\* the orders a shuffle=True sampler can draw over x
Shuffles(x) == {[i \in 1..Len(x) |-> x[p[i]]] : p \in Permutations1(Len(x))}

\* _init_data: every batch of the iterator is appended to data, in order
InitData(d, perm, bs) == d \o Batches(perm, bs)

\* pop(0) in place of pop(): the first element is returned
PopValueFirst(d) == d[1]

\* list.pop(): the last element is removed and returned
PopValue(d) == d[Len(d)]
PopRest(d) == SubSeq(d, 1, Len(d) - 1)

\* the window of calls j*m+1 .. (j+1)*m the call numbered c belongs to starts
\* at a call number that is 1 modulo m
StartsWindow(c, m) == (c - 1) % m = 0

Observe(b) ==
    /\ returned' = b
    /\ outcome' = "batch"
    /\ calls' = calls + 1
    /\ window' = IF StartsWindow(calls + 1, CeilDiv(Len(X), batch_size))
                 THEN <<b>> ELSE Append(window, b)

\* __next__, the try branch: data.pop() succeeds
NextPop ==
    /\ outcome # "IndexError"
    /\ calls < MaxCalls
    /\ data # <<>>
    /\ data' = PopRest(data)
    /\ reloaded' = FALSE
    /\ Observe(PopValue(data))
    /\ UNCHANGED <<X, batch_size, predsVars, atomVars, dVars, probsVars, lossVars, laterVars>>

\* __next__, the except branch: data.pop() raised IndexError, data is
\* reloaded from a fresh shuffled DataLoader and popped again; the second
\* pop is outside the try and raises when the reload brought nothing
NextReload ==
    /\ outcome # "IndexError"
    /\ calls < MaxCalls
    /\ data = <<>>
    /\ \E perm \in Shuffles(X) :
         LET d == InitData(data, perm, batch_size) IN
         IF d = <<>>
         THEN /\ data' = d
              /\ outcome' = "IndexError"
              /\ calls' = calls + 1
              /\ reloaded' = TRUE
              /\ UNCHANGED <<returned, window>>
         ELSE /\ data' = PopRest(d)
              /\ reloaded' = TRUE
              /\ Observe(PopValue(d))
    /\ UNCHANGED <<X, batch_size, predsVars, atomVars, dVars, probsVars, lossVars, laterVars>>

----------------------------------------------------------------------------
(* make_atomized_training_set (lines 306-321)                              *)

AtomIdle == atomX = <<>> /\ atomT = <<>> /\ atomized = <<>> /\ pcAtom = "idle"

\* torch.flatten(X): the rows of X one after another
TorchFlatten(M) == Flatten(M)

\* T.repeat_interleave(n) in place of T.repeat(n): each element n times
TorchRepeatInterleave(T, n) ==
    [i \in 1..(n * Len(T)) |-> T[((i - 1) \div n) + 1]]

\* T.repeat(n): the whole of T, n times over
TorchRepeat(T, n) == [i \in 1..(n * Len(T)) |-> T[((i - 1) % Len(T)) + 1]]

\* zip(a, b): pairs up to the end of the shorter argument
Zip(a, b) == [i \in 1..Min(Len(a), Len(b)) |-> <<a[i], b[i]>>]

MakeAtomizedTrainingSet(M, T) == Zip(TorchFlatten(M), TorchRepeat(T, Len(M)))

CallMakeAtomizedTrainingSet ==
    /\ pcAtom = "call"
    /\ atomized' = MakeAtomizedTrainingSet(atomX, atomT)
    /\ pcAtom' = "done"
    /\ UNCHANGED <<atomX, atomT, predsVars, getterVars, dVars, probsVars, lossVars, laterVars>>

----------------------------------------------------------------------------
(* D (lines 434-463) and the circuit it queues.  A circuit acts here on a  *)
(* computational basis state: wires[w] is the bit on wire w, and           *)
(* support[w] is the set of wires whose original bits wire w holds the     *)
(* XOR of.  CNOT adds the control's bit to the target's; RZ is diagonal    *)
(* and leaves every bit as it is.                                          *)

DIdle ==
    /\ n_qubits = 0 /\ k = <<>> /\ tape = <<>> /\ reads = <<>> /\ pos = 0
    /\ wires = <<>> /\ wires0 = <<>> /\ support = <<>> /\ rzlog = <<>>
    /\ pcD = "idle"

Reverse(s) == [i \in 1..Len(s) |-> s[Len(s) + 1 - i]]

\* itertools.combinations(range(lo, n), i), in the order it yields them
RECURSIVE Combos(_, _, _)
Combos(lo, n, i) ==
    IF i = 0 THEN << <<>> >>
    ELSE IF lo >= n THEN <<>>
    ELSE LET with == Combos(lo + 1, n, i - 1)
             without == Combos(lo + 1, n, i)
         IN [c \in 1..Len(with) |-> <<lo>> \o with[c]] \o without

\* an optional integer: None, or Some(v)
None == <<>>
Some(v) == <<v>>

\* if k is None: k = n
Locality(n, kk) == IF kk = None THEN n ELSE kk[1]

\* range(1, k) in place of range(1, k + 1)
AllCombsShort(n, kk) ==
    Flatten([i \in 1..(Locality(n, kk) - 1) |-> Combos(0, n, i)])

\* for i in range(1, k + 1): for comb in combinations(range(n), i)
AllCombs(n, kk) ==
    Flatten([i \in 1..Locality(n, kk) |-> Combos(0, n, i)])

\* cnots = [comb[i : i + 2] for i in range(len(comb) - 1)]
Cnots(comb) ==
    [j \in 1..(Len(comb) - 1) |->
        [gate |-> "CNOT", wires |-> <<comb[j], comb[j + 1]>>, param |-> -1]]

\* qml.RZ(gamma[cnt], wires=[comb[-1]]) (comb[0] is comb[-1] when len is 1)
RZ(comb, cnt) == [gate |-> "RZ", wires |-> <<comb[Len(comb)]>>, param |-> cnt]

\* the CNOTs after the RZ in the order of those before it
UncomputeForward(cn) == cn

\* for j in cnots[::-1]
Uncompute(cn) == Reverse(cn)

\* the body of the inner loop for one combination, cnt being its value there
CombGates(comb, cnt) ==
    IF Len(comb) = 1 THEN <<RZ(comb, cnt)>>
    ELSE Cnots(comb) \o <<RZ(comb, cnt)>> \o Uncompute(Cnots(comb))

\* every gate D queues, in order; cnt counts the combinations gone through
DGates(n, kk) ==
    LET combs == AllCombs(n, kk) IN
    Flatten([c \in 1..Len(combs) |-> CombGates(combs[c], c - 1)])

\* the indices of gamma read, in order
GammaReads(gates) ==
    LET rz == SelectSeq(gates, LAMBDA g : g.gate = "RZ") IN
    [i \in 1..Len(rz) |-> rz[i].param]

SymDiff(A, B) == (A \ B) \cup (B \ A)

\* the call of D: the gates are queued on the tape
CallD ==
    /\ pcD = "call"
    /\ tape' = DGates(n_qubits, k)
    /\ reads' = GammaReads(DGates(n_qubits, k))
    /\ pos' = 0
    /\ pcD' = "run"
    /\ UNCHANGED <<n_qubits, k, wires, wires0, support, rzlog>>
    /\ UNCHANGED <<predsVars, getterVars, atomVars, probsVars, lossVars, laterVars>>

DQueueDone == pcD = "run" /\ pos = Len(tape)

\* qml.CNOT(wires=[control, target])
ApplyCNOT ==
    /\ pcD = "run" /\ pos < Len(tape)
    /\ tape[pos + 1].gate = "CNOT"
    /\ LET ctl == tape[pos + 1].wires[1]
           tgt == tape[pos + 1].wires[2]
       IN /\ wires' = [wires EXCEPT ![tgt] = (wires[tgt] + wires[ctl]) % 2]
          /\ support' = [support EXCEPT ![tgt] = SymDiff(support[tgt], support[ctl])]
    /\ pos' = pos + 1
    /\ UNCHANGED <<n_qubits, k, tape, reads, wires0, rzlog, pcD>>
    /\ UNCHANGED <<predsVars, getterVars, atomVars, probsVars, lossVars, laterVars>>

\* qml.RZ(angle, wires=[w]): a phase that depends on the bit on w
ApplyRZ ==
    /\ pcD = "run" /\ pos < Len(tape)
    /\ tape[pos + 1].gate = "RZ"
    /\ LET w == tape[pos + 1].wires[1] IN
       rzlog' = Append(rzlog, [param |-> tape[pos + 1].param, wire |-> w,
                               bit |-> wires[w], support |-> support[w],
                               at |-> pos + 1])
    /\ pos' = pos + 1
    /\ UNCHANGED <<n_qubits, k, tape, reads, wires, wires0, support, pcD>>
    /\ UNCHANGED <<predsVars, getterVars, atomVars, probsVars, lossVars, laterVars>>

----------------------------------------------------------------------------
(* get_probs (lines 475-504) and get_callable_projector_func (516-521).    *)
(* U and W are callables handed to get_probs; here they are gates that     *)
(* permute the computational basis states, so that the circuit can be run  *)
(* on the bits of the wires: U(xt) flips wire w when xt[w] = 1, W(alpha)   *)
(* adds alpha to the index of the basis state and its adjoint subtracts    *)
(* it.  The index of a basis state is its bitstring read with wire 0       *)
(* first, which is the order qml.probs lists the bitstrings in.            *)

ProbsIdle ==
    /\ xt = <<>> /\ t = 0 /\ alpha = 0 /\ gamma = <<>> /\ oplog = <<>>
    /\ probs = <<>> /\ proj = 0 /\ pcProbs = "idle"

RECURSIVE Pow2(_)
Pow2(e) == IF e = 0 THEN 1 ELSE 2 * Pow2(e - 1)

\* range(n_qubits)
WireRange(n) == [w \in 0..(n - 1) |-> w]

\* the position of the bitstring on the wires among all bitstrings
RECURSIVE IndexFrom(_, _, _)
IndexFrom(bits, w, n) ==
    IF w = n THEN 0 ELSE bits[w] * Pow2(n - 1 - w) + IndexFrom(bits, w + 1, n)

Index(bits, n) == IndexFrom(bits, 0, n)

BitsOf(idx, n) == [w \in 0..(n - 1) |-> (idx \div Pow2(n - 1 - w)) % 2]

\* U(xt, wires=range(n_qubits))
ApplyEmbedding(x, bits, n) == [w \in 0..(n - 1) |-> (bits[w] + x[w]) % 2]

\* W(alpha, wires=range(n_qubits))
ApplyW(a, bits, n) == BitsOf((Index(bits, n) + a) % Pow2(n), n)

\* W applied a second time in place of its adjoint
ApplyWAgain(a, bits, n) == ApplyW(a, bits, n)

\* qml.adjoint(W)(alpha, wires=range(n_qubits))
ApplyAdjointW(a, bits, n) == BitsOf((Index(bits, n) - a) % Pow2(n), n)

\* gamma * t
Scaled(g, time) == [j \in 1..Len(g) |-> g[j] * time]

\* qml.probs(range(n_qubits)) on a basis state: all of the probability is
\* on the bitstring the wires hold
Probs(bits, n) == [j \in 1..Pow2(n) |-> IF j - 1 = Index(bits, n) THEN 1 ELSE 0]

\* probs_func(...)[0]
Projector(pr) == pr[1]

ProbsU ==
    /\ pcProbs = "U"
    /\ wires' = ApplyEmbedding(xt, wires, n_qubits)
    /\ oplog' = Append(oplog, [op |-> "U", arg |-> xt, wires |-> WireRange(n_qubits)])
    /\ pcProbs' = "W"
    /\ UNCHANGED <<xt, t, alpha, gamma, probs, proj>>
    /\ UNCHANGED <<n_qubits, k, tape, reads, pos, wires0, support, rzlog, pcD>>
    /\ UNCHANGED <<predsVars, getterVars, atomVars, lossVars, laterVars>>

ProbsW ==
    /\ pcProbs = "W"
    /\ wires' = ApplyW(alpha, wires, n_qubits)
    /\ oplog' = Append(oplog, [op |-> "W", arg |-> alpha, wires |-> WireRange(n_qubits)])
    /\ pcProbs' = "D"
    /\ UNCHANGED <<xt, t, alpha, gamma, probs, proj>>
    /\ UNCHANGED <<n_qubits, k, tape, reads, pos, wires0, support, rzlog, pcD>>
    /\ UNCHANGED <<predsVars, getterVars, atomVars, lossVars, laterVars>>

\* D(gamma * t, n_qubits, k): D is entered on the state the wires are in
ProbsD ==
    /\ pcProbs = "D"
    /\ oplog' = Append(oplog, [op |-> "D", arg |-> Scaled(gamma, t),
                               wires |-> WireRange(n_qubits)])
    /\ wires0' = wires
    /\ support' = [w \in 0..(n_qubits - 1) |-> {w}]
    /\ pcD' = "call"
    /\ pcProbs' = "inD"
    /\ UNCHANGED <<xt, t, alpha, gamma, probs, proj>>
    /\ UNCHANGED <<n_qubits, k, tape, reads, pos, wires, rzlog>>
    /\ UNCHANGED <<predsVars, getterVars, atomVars, lossVars, laterVars>>

ProbsAdjointW ==
    /\ pcProbs = "inD" /\ DQueueDone
    /\ wires' = ApplyAdjointW(alpha, wires, n_qubits)
    /\ oplog' = Append(oplog, [op |-> "adjoint(W)", arg |-> alpha,
                               wires |-> WireRange(n_qubits)])
    /\ pcProbs' = "probs"
    /\ UNCHANGED <<xt, t, alpha, gamma, probs, proj>>
    /\ UNCHANGED <<n_qubits, k, tape, reads, pos, wires0, support, rzlog, pcD>>
    /\ UNCHANGED <<predsVars, getterVars, atomVars, lossVars, laterVars>>

\* return qml.probs(range(n_qubits))
ProbsMeasure ==
    /\ pcProbs = "probs"
    /\ probs' = Probs(wires, n_qubits)
    /\ pcProbs' = "measured"
    /\ UNCHANGED <<xt, t, alpha, gamma, oplog, proj>>
    /\ UNCHANGED <<dVars, predsVars, getterVars, atomVars, lossVars, laterVars>>

\* callable_proj: probs_func(xt, t, alpha, gamma, k, U, W, D, n_qubits)[0]
CallableProj ==
    /\ pcProbs = "measured"
    /\ proj' = Projector(probs)
    /\ pcProbs' = "done"
    /\ UNCHANGED <<xt, t, alpha, gamma, oplog, probs>>
    /\ UNCHANGED <<dVars, predsVars, getterVars, atomVars, lossVars, laterVars>>

----------------------------------------------------------------------------
(* F (530-537), callable_arctan_penalty (551-555), get_loss (565-584).     *)
(* Real numbers are exact fractions <<numerator, denominator>> with a      *)
(* positive denominator.                                                   *)

LossIdle ==
    /\ X_batch = <<>> /\ T_batch = <<>> /\ mu = 0 /\ sigma = 0 /\ tau = 0
    /\ n_samples = 0 /\ iLoss = 0 /\ loss = <<>> /\ Fcalls = <<>>
    /\ lossResult = <<0, 1>> /\ pcLoss = "idle"

RAdd(a, b) == <<a[1] * b[2] + b[1] * a[2], a[2] * b[2]>>
RSub(a, b) == <<a[1] * b[2] - b[1] * a[2], a[2] * b[2]>>
RMul(a, b) == <<a[1] * b[1], a[2] * b[2]>>
REq(a, b) == a[1] * b[2] = b[1] * a[2]
RLess(a, b) == a[1] * b[2] < b[1] * a[2]
RLeq(a, b) == a[1] * b[2] <= b[1] * a[2]

RECURSIVE RSum(_)
RSum(s) == IF s = <<>> THEN <<0, 1>> ELSE RAdd(Head(s), RSum(Tail(s)))

\* .square()
Square(a) == RMul(a, a)

\* .sum() in place of .mean()
MeanAsSum(s) == RSum(s)

\* .mean()
Mean(s) == RMul(RSum(s), <<1, Len(s)>>)

\* expectation.mean() over n_samples values of the projector, each the
\* probability 0 or 1 of the all-zeros bitstring for the gamma drawn:
\* hits of the samples gave 1
FValue(hits, n) == <<hits, n>>

Abs(v) == IF v < 0 THEN -v ELSE v

\* sigma is given by the angle arctan(2 pi |sigma|), a signed count of
\* steps of (pi/2)/QuarterTurn: a count of QuarterTurn stands for every sigma
\* so large that floating-point arctan returns pi/2 itself.  For tau = 1 the
\* penalty angle arctan(2 pi tau |sigma|) is that angle, for tau = 0 it is 0.
PenaltyAngle(ta, sg) == IF ta = 0 THEN 0 ELSE Abs(sg)

\* a prefactor of 2 / pi in place of 1 / pi
ArctanPenaltyDouble(ta, sg) == <<2 * PenaltyAngle(ta, sg), 2 * QuarterTurn>>

\* prefac * torch.arctan(2 * torch.pi * tau * sigma.abs()).mean(), with
\* prefac = 1 / pi: the angle as a fraction of pi
ArctanPenalty(ta, sg) == <<PenaltyAngle(ta, sg), 2 * QuarterTurn>>

\* one pass of the for loop: F is evaluated on element i of the batch
LossIter ==
    /\ pcLoss = "loop"
    /\ iLoss < Len(X_batch)
    /\ \E hits \in 0..n_samples :
         /\ Fcalls' = Append(Fcalls, [xt |-> X_batch[iLoss + 1],
                                      t |-> T_batch[iLoss + 1],
                                      alpha |-> alpha, mu |-> mu, sigma |-> sigma,
                                      value |-> FValue(hits, n_samples)])
         /\ loss' = Append(loss, Square(RSub(<<1, 1>>, FValue(hits, n_samples))))
    /\ iLoss' = iLoss + 1
    /\ UNCHANGED <<X_batch, T_batch, mu, sigma, tau, n_samples, lossResult, pcLoss>>
    /\ UNCHANGED <<predsVars, getterVars, atomVars, dVars, probsVars, laterVars>>

\* return 0.5 * loss.mean() + callable_penalty(sigma)
LossReturn ==
    /\ pcLoss = "loop"
    /\ iLoss = Len(X_batch)
    /\ lossResult' = RAdd(RMul(<<1, 2>>, Mean(loss)), ArctanPenalty(tau, sigma))
    /\ pcLoss' = "done"
    /\ UNCHANGED <<X_batch, T_batch, mu, sigma, tau, n_samples, iLoss, loss, Fcalls>>
    /\ UNCHANGED <<predsVars, getterVars, atomVars, dVars, probsVars, laterVars>>

----------------------------------------------------------------------------
(* get_anomaly_score (lines 833-863)                                       *)

ScoreIdle ==
    /\ score_x = <<>> /\ score_T = <<>> /\ get_time_resolved = FALSE
    /\ iScore = 0 /\ scoreTerms = <<>> /\ scoreCalls = <<>>
    /\ scoreResult = [resolved |-> FALSE, terms |-> <<>>, mean |-> <<0, 1>>]
    /\ pcScore = "idle"

\* the difference 1 - F stored without .square()
MissNotSquared(f) == RSub(<<1, 1>>, f)

\* (1 - F(...)).square()
SquaredMiss(f) == Square(RSub(<<1, 1>>, f))

\* one pass of the for loop over range(T.size()[0])
ScoreIter ==
    /\ pcScore = "loop"
    /\ iScore < Len(score_T)
    /\ \E hits \in 0..n_samples :
         /\ scoreCalls' = Append(scoreCalls,
                                 [xt |-> score_x[iScore + 1],
                                  t |-> score_T[iScore + 1],
                                  alpha |-> alpha, mu |-> mu, sigma |-> sigma,
                                  value |-> FValue(hits, n_samples)])
         /\ scoreTerms' = Append(scoreTerms, SquaredMiss(FValue(hits, n_samples)))
    /\ iScore' = iScore + 1
    /\ UNCHANGED <<score_x, score_T, get_time_resolved, scoreResult, pcScore>>
    /\ UNCHANGED <<qvrVars, probsVars, lossVars, flowVars, chemVars, plotVars>>

\* if get_time_resolved: return score, score.mean()  else: return score.mean()
ScoreReturn ==
    /\ pcScore = "loop"
    /\ iScore = Len(score_T)
    /\ scoreResult' = IF get_time_resolved
                      THEN [resolved |-> TRUE, terms |-> scoreTerms, mean |-> Mean(scoreTerms)]
                      ELSE [resolved |-> FALSE, terms |-> <<>>, mean |-> Mean(scoreTerms)]
    /\ pcScore' = "done"
    /\ UNCHANGED <<score_x, score_T, get_time_resolved, iScore, scoreTerms, scoreCalls>>
    /\ UNCHANGED <<qvrVars, probsVars, lossVars, flowVars, chemVars, plotVars>>

----------------------------------------------------------------------------
(* The script's top level: server start, three dispatches, server stop    *)
(* (lines 30-32, 752-774, 951-971, 1070-1083, 1099)                        *)

MaxParam == 2       \* opt_params values the training lattice may return
GridSteps == 2      \* points of the zetas grid
MaxAcc == 1         \* accuracy levels 0..MaxAcc
NumModels == 3      \* trained model plus the two random_model_seeds

Lattices == {"training", "tuning", "testing"}

NoInputs == [tuning_opt |-> 0, testing_opt |-> 0, best_zetas |-> <<>>]
NoOutputs == [opt_params |-> 0, accs_list |-> <<>>, test_accs |-> <<>>]

FlowIdle ==
    /\ line32 = "idle" /\ pcScript = "idle" /\ server = "down"
    /\ lattice = [l \in Lattices |-> "none"]
    /\ latticeIn = NoInputs /\ latticeOut = NoOutputs
    /\ results_dict = 0 /\ accs_list = <<>> /\ events = <<>>

ChemIdle ==
    /\ electrons = 0 /\ orbitals = 0
    /\ active_electrons = None /\ active_orbitals = None
    /\ core = <<>> /\ active = <<>>
    /\ h2o_xyz = <<>> /\ symbols = <<>> /\ coordinates = 0 /\ hf_file = <<>>
    /\ no_core_orbitals = <<>> /\ all_active = <<>>
    /\ qubit_hamiltonian = <<>> /\ H = <<>> /\ qubits = 0
    /\ pcChem = "idle"

PlotIdle ==
    /\ num_series = 0 /\ norm_scores = <<>> /\ anom_scores = <<>>
    /\ scores_list = <<>> /\ boxNormal = <<>> /\ boxAnomalous = <<>>
    /\ boxIndices = <<{}, {}>>
    /\ pcPlot = "idle"

FlowRest == <<qvrVars, probsVars, lossVars, scoreVars, chemVars, plotVars>>

\* zetas = torch.linspace(zeta_min, zeta_max, steps): grid point j
Zetas(j) == j

\* torch.argmax: the index of the first maximal value
ArgMax(a) ==
    CHOOSE i \in 1..Len(a) :
        /\ \A j \in 1..Len(a) : a[j] <= a[i]
        /\ \A j \in 1..(i - 1) : a[j] < a[i]

\* [zetas[torch.argmax(accs)] for accs in accs_list]
BestZetas(al) == [i \in 1..Len(al) |-> Zetas(ArgMax(al[i]))]

\* The interpreter compiles the whole file before running line 1.  As
\* written, line 32 is the string "covalent start -m " followed by the
\* token 2GiB and the string " -n 2": a SyntaxError, and nothing runs.
\* The other value of line32 is the line with the inner quotes escaped.
Compile ==
    /\ pcScript = "compile"
    /\ pcScript' = IF line32 = "as_written" THEN "SyntaxError" ELSE "start"
    /\ UNCHANGED <<line32, server, lattice, latticeIn, latticeOut,
                   results_dict, accs_list, events>>
    /\ UNCHANGED FlowRest

\* os.system("covalent start ...")
StartServer ==
    /\ pcScript = "start"
    /\ server' = "up"
    /\ events' = Append(events, "start")
    /\ pcScript' = "dispatch_training"
    /\ UNCHANGED <<line32, lattice, latticeIn, latticeOut, results_dict, accs_list>>
    /\ UNCHANGED FlowRest

\* tr_dispatch_id = ct.dispatch(training_workflow)(**training_options)
DispatchTraining ==
    /\ pcScript = "dispatch_training"
    /\ lattice' = [lattice EXCEPT !["training"] = "running"]
    /\ events' = Append(events, "dispatch training")
    /\ pcScript' = "await_training"
    /\ UNCHANGED <<line32, server, latticeIn, latticeOut, results_dict, accs_list>>
    /\ UNCHANGED FlowRest

\* the server runs training_workflow to its result
RunTraining ==
    /\ server = "up" /\ lattice["training"] = "running"
    /\ \E o \in 1..MaxParam :
         latticeOut' = [latticeOut EXCEPT !.opt_params = o]
    /\ lattice' = [lattice EXCEPT !["training"] = "done"]
    /\ UNCHANGED <<line32, pcScript, server, latticeIn, results_dict, accs_list, events>>
    /\ UNCHANGED FlowRest

\* ct_tr_results = ct.get_result(dispatch_id=tr_dispatch_id, wait=True)
\* results_dict = ct_tr_results.result
GetTrainingResult ==
    /\ pcScript = "await_training"
    /\ lattice["training"] = "done"
    /\ results_dict' = latticeOut.opt_params
    /\ events' = Append(events, "result training")
    /\ pcScript' = "dispatch_tuning"
    /\ UNCHANGED <<line32, server, lattice, latticeIn, latticeOut, accs_list>>
    /\ UNCHANGED FlowRest

\* threshold_tuning_options["opt_params"] = results_dict["opt_params"]
\* val_dispatch_id = ct.dispatch(threshold_tuning_workflow)(...)
DispatchTuning ==
    /\ pcScript = "dispatch_tuning"
    /\ latticeIn' = [latticeIn EXCEPT !.tuning_opt = results_dict]
    /\ lattice' = [lattice EXCEPT !["tuning"] = "running"]
    /\ events' = Append(events, "dispatch tuning")
    /\ pcScript' = "await_tuning"
    /\ UNCHANGED <<line32, server, latticeOut, results_dict, accs_list>>
    /\ UNCHANGED FlowRest

\* the server runs threshold_tuning_workflow: one accuracy scan per model
RunTuning ==
    /\ server = "up" /\ lattice["tuning"] = "running"
    /\ \E al \in [1..NumModels -> [1..GridSteps -> 0..MaxAcc]] :
         latticeOut' = [latticeOut EXCEPT !.accs_list = al]
    /\ lattice' = [lattice EXCEPT !["tuning"] = "done"]
    /\ UNCHANGED <<line32, pcScript, server, latticeIn, results_dict, accs_list, events>>
    /\ UNCHANGED FlowRest

\* ct_val_results = ct.get_result(dispatch_id=val_dispatch_id, wait=True)
\* accs_list, scores_list = ct_val_results.result
GetTuningResult ==
    /\ pcScript = "await_tuning"
    /\ lattice["tuning"] = "done"
    /\ accs_list' = latticeOut.accs_list
    /\ events' = Append(events, "result tuning")
    /\ pcScript' = "dispatch_testing"
    /\ UNCHANGED <<line32, server, lattice, latticeIn, latticeOut, results_dict>>
    /\ UNCHANGED FlowRest

\* testing_options: best_zetas from accs_list, opt_params from results_dict
\* test_dispatch_id = ct.dispatch(testing_workflow)(**testing_options)
DispatchTesting ==
    /\ pcScript = "dispatch_testing"
    /\ latticeIn' = [latticeIn EXCEPT !.testing_opt = results_dict,
                                      !.best_zetas = BestZetas(accs_list)]
    /\ lattice' = [lattice EXCEPT !["testing"] = "running"]
    /\ events' = Append(events, "dispatch testing")
    /\ pcScript' = "await_testing"
    /\ UNCHANGED <<line32, server, latticeOut, results_dict, accs_list>>
    /\ UNCHANGED FlowRest

\* the server runs testing_workflow: one accuracy per model
RunTesting ==
    /\ server = "up" /\ lattice["testing"] = "running"
    /\ \E ta \in [1..NumModels -> 0..MaxAcc] :
         latticeOut' = [latticeOut EXCEPT !.test_accs = ta]
    /\ lattice' = [lattice EXCEPT !["testing"] = "done"]
    /\ UNCHANGED <<line32, pcScript, server, latticeIn, results_dict, accs_list, events>>
    /\ UNCHANGED FlowRest

\* ct_test_results = ct.get_result(dispatch_id=test_dispatch_id, wait=True)
\* accs_list = ct_test_results.result
GetTestingResult ==
    /\ pcScript = "await_testing"
    /\ lattice["testing"] = "done"
    /\ accs_list' = latticeOut.test_accs
    /\ events' = Append(events, "result testing")
    /\ pcScript' = "stop"
    /\ UNCHANGED <<line32, server, lattice, latticeIn, latticeOut, results_dict>>
    /\ UNCHANGED FlowRest

\* os.system("covalent stop")
StopServer ==
    /\ pcScript = "stop"
    /\ server' = "down"
    /\ events' = Append(events, "stop")
    /\ pcScript' = "ended"
    /\ UNCHANGED <<line32, lattice, latticeIn, latticeOut, results_dict, accs_list>>
    /\ UNCHANGED FlowRest

----------------------------------------------------------------------------
(* Defining an active space (tutorial_quantum_chemistry.py, lines 187-226) *)

MaxElectrons == 10  \* largest electron count drawn
MaxOrbitals == 7    \* largest orbital count drawn

ChemRest == <<qvrVars, probsVars, lossVars, scoreVars, flowVars, plotVars>>

\* number of doubly occupied core orbitals: half of the electrons that are
\* not active; none when no active electrons are given
NCore(e, ae) == IF ae = None THEN 0 ELSE (e - ae[1]) \div 2

\* qchem.active_space: the core orbitals are the lowest NCore indices, the
\* active orbitals the next active_orbitals indices (all the remaining
\* ones when active_orbitals is not given); indices count from 0
ActiveSpace(e, o, ae, ao) ==
    LET nc == NCore(e, ae)
        na == IF ao = None THEN o - nc ELSE ao[1]
    IN  [core |-> [i \in 1..nc |-> i - 1],
         active |-> [i \in 1..na |-> nc + i - 1]]

\* the arguments active_space accepts: a positive even number of electrons
\* left for the core, and a core plus active space inside the orbitals
ValidActiveSpace(e, o, ae, ao) ==
    /\ ae # None => ae[1] >= 1 /\ ae[1] <= e /\ (e - ae[1]) % 2 = 0
    /\ NCore(e, ae) < o
    /\ ao # None => ao[1] >= 1 /\ NCore(e, ae) + ao[1] <= o

\* the call with the keywords exchanged
CallActiveSpaceSwapped(e, o, ae, ao) == ActiveSpace(e, o, ao, ae)

\* qchem.active_space(electrons, orbitals, active_electrons=..., active_orbitals=...)
CallActiveSpace(e, o, ae, ao) == ActiveSpace(e, o, ae, ao)

\* core, active = qchem.active_space(...)
DefineActiveSpace ==
    /\ pcChem = "active_space"
    /\ LET r == CallActiveSpace(electrons, orbitals, active_electrons, active_orbitals)
       IN  core' = r.core /\ active' = r.active
    /\ pcChem' = "defined"
    /\ UNCHANGED <<electrons, orbitals, active_electrons, active_orbitals>>
    /\ UNCHANGED <<buildVars, ChemRest>>

----------------------------------------------------------------------------
(* Building the Hamiltonian step by step and with molecular_hamiltonian    *)
(* (tutorial_quantum_chemistry.py, lines 58, 101-161, 210-226, 256-283)    *)

MaxGeom == 5        \* geometries the structure file may hold

\* the orders in which h2o.xyz may list the atoms of water
WaterSymbols == {<<"O", "H", "H">>, <<"H", "O", "H">>, <<"H", "H", "O">>}

\* qchem.read_structure: the symbols and the coordinates held by the file
ReadStructure(file) == [symbols |-> file[1], coordinates |-> file[2]]

\* qchem.meanfield: the Hartree-Fock file is determined by the molecule,
\* its name, charge, multiplicity, basis set and package
Meanfield(sym, coord, nm, ch, mult, basis, pkg) ==
    <<sym, coord, nm, ch, mult, basis, pkg>>

\* qchem.decompose: the qubit Hamiltonian is determined by the
\* Hartree-Fock file, the mapping and the core and active orbitals
Decompose(hf, mapping, c, a) == <<hf, mapping, c, a>>

AtomicNumber(sym) == IF sym = "O" THEN 8 ELSE 1

\* molecular orbitals of one atom in the minimal basis set
MinimalBasisFunctions(sym) == IF sym = "O" THEN 5 ELSE 1

RECURSIVE SumAtomicNumbers(_)
SumAtomicNumbers(sym) ==
    IF sym = <<>> THEN 0 ELSE AtomicNumber(Head(sym)) + SumAtomicNumbers(Tail(sym))

RECURSIVE SumBasisFunctions(_)
SumBasisFunctions(sym) ==
    IF sym = <<>> THEN 0
    ELSE MinimalBasisFunctions(Head(sym)) + SumBasisFunctions(Tail(sym))

\* electrons and orbitals of the molecule, as read from the Hartree-Fock file
NElectrons(hf) == SumAtomicNumbers(hf[1]) - hf[4]
NOrbitals(hf) == SumBasisFunctions(hf[1])

\* qchem.molecular_hamiltonian: meanfield, then active_space on the
\* molecule's own electron and orbital counts, then decompose
MolecularHamiltonian(sym, coord, nm, ch, mult, basis, pkg, ae, ao, mapping) ==
    LET hf == Meanfield(sym, coord, nm, ch, mult, basis, pkg)
        sp == ActiveSpace(NElectrons(hf), NOrbitals(hf), ae, ao)
    IN  [H |-> Decompose(hf, mapping, sp.core, sp.active),
         qubits |-> 2 * Len(sp.active)]

\* symbols, coordinates = qchem.read_structure('h2o.xyz')       (line 58)
ReadH2O ==
    /\ pcChem = "read"
    /\ symbols' = ReadStructure(h2o_xyz).symbols
    /\ coordinates' = ReadStructure(h2o_xyz).coordinates
    /\ pcChem' = "meanfield"
    /\ UNCHANGED <<spaceVars, h2o_xyz, hf_file, no_core_orbitals, all_active,
                   qubit_hamiltonian, H, qubits>>
    /\ UNCHANGED ChemRest

\* qchem.meanfield(symbols, coordinates, charge=charge, mult=multiplicity,
\*                 basis=basis_set, package='pyscf'); name keeps its default
ManualMeanfield(sym, coord) ==
    Meanfield(sym, coord, "molecule", 0, 1, "sto-3g", "pyscf")

\* hf_file = qchem.meanfield(...)                          (lines 154-161)
RunMeanfield ==
    /\ pcChem = "meanfield"
    /\ hf_file' = ManualMeanfield(symbols, coordinates)
    /\ pcChem' = "counts"
    /\ UNCHANGED <<spaceVars, h2o_xyz, symbols, coordinates, no_core_orbitals,
                   all_active, qubit_hamiltonian, H, qubits>>
    /\ UNCHANGED ChemRest

\* electrons = 10; orbitals = 7; the keywords of the call on line 212
AssignCounts ==
    /\ pcChem = "counts"
    /\ electrons' = 10 /\ orbitals' = 7
    /\ active_electrons' = Some(4) /\ active_orbitals' = Some(4)
    /\ pcChem' = "active_space"
    /\ UNCHANGED <<core, active, buildVars>>
    /\ UNCHANGED ChemRest

\* no_core_orbitals, all_active = qchem.active_space(electrons, orbitals)
DefaultActiveSpace ==
    /\ pcChem = "defined"
    /\ LET r == ActiveSpace(electrons, orbitals, None, None)
       IN  no_core_orbitals' = r.core /\ all_active' = r.active
    /\ pcChem' = "decompose"
    /\ UNCHANGED <<spaceVars, h2o_xyz, symbols, coordinates, hf_file,
                   qubit_hamiltonian, H, qubits>>
    /\ UNCHANGED ChemRest

\* the call of lines 256-258 with the other mapping
ManualDecomposeBK(hf, c, a) == Decompose(hf, "bravyi_kitaev", c, a)

\* qchem.decompose(hf_file, mapping="jordan_wigner", core=core, active=active)
ManualDecompose(hf, c, a) == Decompose(hf, "jordan_wigner", c, a)

\* qubit_hamiltonian = qchem.decompose(...)                (lines 256-258)
RunDecompose ==
    /\ pcChem = "decompose"
    /\ qubit_hamiltonian' = ManualDecompose(hf_file, core, active)
    /\ pcChem' = "read_again"
    /\ UNCHANGED <<spaceVars, h2o_xyz, symbols, coordinates, hf_file,
                   no_core_orbitals, all_active, H, qubits>>
    /\ UNCHANGED ChemRest

\* symbols, coordinates = qchem.read_structure('h2o.xyz')      (line 271)
ReadH2OAgain ==
    /\ pcChem = "read_again"
    /\ symbols' = ReadStructure(h2o_xyz).symbols
    /\ coordinates' = ReadStructure(h2o_xyz).coordinates
    /\ pcChem' = "molecular_hamiltonian"
    /\ UNCHANGED <<spaceVars, h2o_xyz, hf_file, no_core_orbitals, all_active,
                   qubit_hamiltonian, H, qubits>>
    /\ UNCHANGED ChemRest

\* H, qubits = qchem.molecular_hamiltonian(symbols, coordinates,
\*     charge=charge, mult=multiplicity, basis=basis_set, package='pyscf',
\*     active_electrons=4, active_orbitals=4, mapping='jordan_wigner')
RunMolecularHamiltonian ==
    /\ pcChem = "molecular_hamiltonian"
    /\ LET r == MolecularHamiltonian(symbols, coordinates, "molecule", 0, 1,
                                     "sto-3g", "pyscf", Some(4), Some(4),
                                     "jordan_wigner")
       IN  H' = r.H /\ qubits' = r.qubits
    /\ pcChem' = "end"
    /\ UNCHANGED <<spaceVars, h2o_xyz, symbols, coordinates, hf_file,
                   no_core_orbitals, all_active, qubit_hamiltonian>>
    /\ UNCHANGED ChemRest

----------------------------------------------------------------------------
(* The validation scores and their box plot (lines 866-885, 986-1003)      *)

MaxPlotSeries == 3  \* most series per class

PlotRest == <<qvrVars, probsVars, lossVars, scoreVars, flowVars, chemVars>>

\* a slice bound as Python reads it: a negative bound counts from the end,
\* and the bound is clamped to 0..len
SliceBound(len, b) ==
    LET fromEnd == IF b < 0 THEN b + len ELSE b
    IN  IF fromEnd < 0 THEN 0 ELSE IF fromEnd > len THEN len ELSE fromEnd

\* the 0-based indices selected by s[a : b]
SliceIndices(len, a, b) ==
    {i \in 0..(len - 1) : SliceBound(len, a) <= i /\ i < SliceBound(len, b)}

\* s[a : b]
PySlice(s, a, b) ==
    LET lo == SliceBound(Len(s), a)
        hi == SliceBound(Len(s), b)
    IN  [j \in 1..(IF hi > lo THEN hi - lo ELSE 0) |-> s[lo + j]]

\* return torch.cat([norm_scores, anom_scores])
GetNormAndAnomScores ==
    /\ pcPlot = "scores"
    /\ scores_list' = norm_scores \o anom_scores
    /\ pcPlot' = "boxplot"
    /\ UNCHANGED <<num_series, norm_scores, anom_scores, boxNormal,
                   boxAnomalous, boxIndices>>
    /\ UNCHANGED PlotRest

\* boxplot([scores_list[i][0 : num_series], scores_list[i][num_series : -1]],
\*         labels=["Normal", "Anomalous"])
Boxplot ==
    /\ pcPlot = "boxplot"
    /\ boxNormal' = PySlice(scores_list, 0, num_series)
    /\ boxAnomalous' = PySlice(scores_list, num_series, -1)
    /\ boxIndices' = <<SliceIndices(Len(scores_list), 0, num_series),
                       SliceIndices(Len(scores_list), num_series, -1)>>
    /\ pcPlot' = "plotted"
    /\ UNCHANGED <<num_series, norm_scores, anom_scores, scores_list>>
    /\ UNCHANGED PlotRest

LaterIdle == ScoreIdle /\ FlowIdle /\ ChemIdle /\ PlotIdle

----------------------------------------------------------------------------
(* Specifications *)

InitPreds ==
    /\ zeta \in 0..MaxScoreVal
    /\ scores \in SeqsUpTo(0..MaxScoreVal, MaxScores)
    /\ preds = <<>>
    /\ pcPreds = "call"
    /\ GetterIdle /\ AtomIdle /\ DIdle /\ ProbsIdle /\ LossIdle /\ LaterIdle

NextPreds == GetPredsGivenThreshold

SpecPreds == InitPreds /\ [][NextPreds]_vars

\* DataGetter.__init__: data starts as one shuffled pass over X
InitGetter ==
    /\ \E n \in 1..MaxN : X = [i \in 1..n |-> i]
    /\ batch_size \in 1..MaxBatch
    /\ \E perm \in Shuffles(X) : data = InitData(<<>>, perm, batch_size)
    /\ returned = <<>> /\ outcome = "idle" /\ calls = 0
    /\ reloaded = FALSE /\ window = <<>>
    /\ PredsIdle /\ AtomIdle /\ DIdle /\ ProbsIdle /\ LossIdle /\ LaterIdle

NextGetter == NextPop \/ NextReload

SpecGetter == InitGetter /\ [][NextGetter]_vars

InitAtom ==
    /\ \E ns \in 1..MaxSeries, p \in 1..MaxP :
         /\ atomX \in [1..ns -> [1..p -> ObsVals]]
         /\ atomT \in [1..p -> TimeVals]
    /\ atomized = <<>>
    /\ pcAtom = "call"
    /\ PredsIdle /\ GetterIdle /\ DIdle /\ ProbsIdle /\ LossIdle /\ LaterIdle

NextAtom == CallMakeAtomizedTrainingSet

SpecAtom == InitAtom /\ [][NextAtom]_vars

\* D is called on n wires holding a computational basis state
InitD ==
    /\ n_qubits \in 1..MaxQubits
    /\ k \in {None} \cup {Some(v) : v \in 0..(MaxQubits + 1)}
    /\ wires0 \in [0..(n_qubits - 1) -> {0, 1}]
    /\ wires = wires0
    /\ support = [w \in 0..(n_qubits - 1) |-> {w}]
    /\ tape = <<>> /\ reads = <<>> /\ pos = 0 /\ rzlog = <<>>
    /\ pcD = "call"
    /\ PredsIdle /\ GetterIdle /\ AtomIdle /\ ProbsIdle /\ LossIdle /\ LaterIdle

NextD == CallD \/ ApplyCNOT \/ ApplyRZ

SpecD == InitD /\ [][NextD]_vars

\* a device run of get_probs starts from the all-zeros state
InitProbs ==
    /\ n_qubits \in 1..MaxQubits
    /\ k \in {None} \cup {Some(v) : v \in 0..(MaxQubits + 1)}
    /\ xt \in [0..(n_qubits - 1) -> {0, 1}]
    /\ t \in TimeVals
    /\ alpha \in 0..(Pow2(n_qubits) - 1)
    /\ gamma = [j \in 1..(Pow2(n_qubits) - 1) |-> j]
    /\ wires = [w \in 0..(n_qubits - 1) |-> 0]
    /\ wires0 = wires
    /\ support = [w \in 0..(n_qubits - 1) |-> {w}]
    /\ tape = <<>> /\ reads = <<>> /\ pos = 0 /\ rzlog = <<>>
    /\ pcD = "idle"
    /\ oplog = <<>> /\ probs = <<>> /\ proj = 0
    /\ pcProbs = "U"
    /\ PredsIdle /\ GetterIdle /\ AtomIdle /\ LossIdle /\ LaterIdle

NextProbs ==
    \/ ProbsU \/ ProbsW \/ ProbsD
    \/ CallD \/ ApplyCNOT \/ ApplyRZ
    \/ ProbsAdjointW \/ ProbsMeasure \/ CallableProj

SpecProbs == InitProbs /\ [][NextProbs]_vars

\* get_loss is called on a non-empty batch of pairs (x_t, t)
InitLoss ==
    /\ \E b \in 1..MaxBatchLen :
         /\ X_batch \in [1..b -> ObsVals]
         /\ T_batch \in [1..b -> TimeVals]
    /\ n_samples \in 1..MaxSamples
    /\ tau \in {0, 1}
    /\ sigma \in (-QuarterTurn)..QuarterTurn
    /\ mu = 1
    /\ alpha = 1
    /\ iLoss = 0 /\ loss = <<>> /\ Fcalls = <<>>
    /\ lossResult = <<0, 1>>
    /\ pcLoss = "loop"
    /\ xt = <<>> /\ t = 0 /\ gamma = <<>> /\ oplog = <<>>
    /\ probs = <<>> /\ proj = 0 /\ pcProbs = "idle"
    /\ PredsIdle /\ GetterIdle /\ AtomIdle /\ DIdle /\ LaterIdle

NextLoss == LossIter \/ LossReturn

SpecLoss == InitLoss /\ [][NextLoss]_vars

\* get_anomaly_score is called on one series x and the times T
InitScore ==
    /\ \E p \in 1..MaxP :
         /\ score_x \in [1..p -> ObsVals]
         /\ score_T \in [1..p -> TimeVals]
    /\ get_time_resolved \in BOOLEAN
    /\ n_samples \in 1..MaxSamples
    /\ sigma \in {-1, 0, 1}
    /\ mu = 1
    /\ alpha = 1
    /\ iScore = 0 /\ scoreTerms = <<>> /\ scoreCalls = <<>>
    /\ scoreResult = [resolved |-> FALSE, terms |-> <<>>, mean |-> <<0, 1>>]
    /\ pcScore = "loop"
    /\ X_batch = <<>> /\ T_batch = <<>> /\ tau = 0
    /\ iLoss = 0 /\ loss = <<>> /\ Fcalls = <<>>
    /\ lossResult = <<0, 1>> /\ pcLoss = "idle"
    /\ xt = <<>> /\ t = 0 /\ gamma = <<>> /\ oplog = <<>>
    /\ probs = <<>> /\ proj = 0 /\ pcProbs = "idle"
    /\ PredsIdle /\ GetterIdle /\ AtomIdle /\ DIdle
    /\ FlowIdle /\ ChemIdle /\ PlotIdle

NextScore == ScoreIter \/ ScoreReturn

SpecScore == InitScore /\ [][NextScore]_vars

\* the interpreter is handed the script
InitFlow ==
    /\ line32 \in {"as_written", "quotes_escaped"}
    /\ pcScript = "compile" /\ server = "down"
    /\ lattice = [l \in Lattices |-> "none"]
    /\ latticeIn = NoInputs /\ latticeOut = NoOutputs
    /\ results_dict = 0 /\ accs_list = <<>> /\ events = <<>>
    /\ PredsIdle /\ GetterIdle /\ AtomIdle /\ DIdle /\ ProbsIdle /\ LossIdle
    /\ ScoreIdle /\ ChemIdle /\ PlotIdle

NextFlow ==
    \/ Compile \/ StartServer
    \/ DispatchTraining \/ RunTraining \/ GetTrainingResult
    \/ DispatchTuning \/ RunTuning \/ GetTuningResult
    \/ DispatchTesting \/ RunTesting \/ GetTestingResult
    \/ StopServer

SpecFlow == InitFlow /\ [][NextFlow]_vars

\* active_space is called on any arguments it accepts
InitSpace ==
    /\ electrons \in 1..MaxElectrons
    /\ orbitals \in 1..MaxOrbitals
    /\ active_electrons \in {None} \cup {Some(n) : n \in 1..MaxElectrons}
    /\ active_orbitals \in {None} \cup {Some(n) : n \in 1..MaxOrbitals}
    /\ ValidActiveSpace(electrons, orbitals, active_electrons, active_orbitals)
    /\ core = <<>> /\ active = <<>>
    /\ h2o_xyz = <<>> /\ symbols = <<>> /\ coordinates = 0 /\ hf_file = <<>>
    /\ no_core_orbitals = <<>> /\ all_active = <<>>
    /\ qubit_hamiltonian = <<>> /\ H = <<>> /\ qubits = 0
    /\ pcChem = "active_space"
    /\ PredsIdle /\ GetterIdle /\ AtomIdle /\ DIdle /\ ProbsIdle /\ LossIdle
    /\ ScoreIdle /\ FlowIdle /\ PlotIdle

NextSpace == DefineActiveSpace

SpecSpace == InitSpace /\ [][NextSpace]_vars

\* the script starts with the structure file of water in place
InitChem ==
    /\ h2o_xyz \in WaterSymbols \X (1..MaxGeom)
    /\ symbols = <<>> /\ coordinates = 0 /\ hf_file = <<>>
    /\ electrons = 0 /\ orbitals = 0
    /\ active_electrons = None /\ active_orbitals = None
    /\ core = <<>> /\ active = <<>>
    /\ no_core_orbitals = <<>> /\ all_active = <<>>
    /\ qubit_hamiltonian = <<>> /\ H = <<>> /\ qubits = 0
    /\ pcChem = "read"
    /\ PredsIdle /\ GetterIdle /\ AtomIdle /\ DIdle /\ ProbsIdle /\ LossIdle
    /\ ScoreIdle /\ FlowIdle /\ PlotIdle

NextChem ==
    \/ ReadH2O \/ RunMeanfield \/ AssignCounts \/ DefineActiveSpace
    \/ DefaultActiveSpace \/ RunDecompose \/ ReadH2OAgain
    \/ RunMolecularHamiltonian

SpecChem == InitChem /\ [][NextChem]_vars

\* one model's scores of num_series normal and num_series anomalous series
InitPlot ==
    /\ num_series \in 1..MaxPlotSeries
    /\ norm_scores \in [1..num_series -> 0..MaxScoreVal]
    /\ anom_scores \in [1..num_series -> 0..MaxScoreVal]
    /\ scores_list = <<>> /\ boxNormal = <<>> /\ boxAnomalous = <<>>
    /\ boxIndices = <<{}, {}>>
    /\ pcPlot = "scores"
    /\ PredsIdle /\ GetterIdle /\ AtomIdle /\ DIdle /\ ProbsIdle /\ LossIdle
    /\ ScoreIdle /\ FlowIdle /\ ChemIdle

NextPlot == GetNormAndAnomScores \/ Boxplot

SpecPlot == InitPlot /\ [][NextPlot]_vars

----------------------------------------------------------------------------
(* C1: get_preds_given_threshold gives one label per score, in the order   *)
(* of the scores: -1 exactly when the score is strictly greater than zeta, *)
(* +1 otherwise, so a score equal to zeta is labelled +1.                  *)
C1_ThresholdLabels ==
    pcPreds = "done" =>
        /\ Len(preds) = Len(scores)
        /\ \A i \in 1..Len(scores) :
             /\ preds[i] \in {-1, 1}
             /\ preds[i] = -1 <=> scores[i] > zeta
             /\ scores[i] = zeta => preds[i] = 1

C1_Witness ==
    /\ pcPreds = "done"
    /\ \E i, j, h \in 1..Len(scores) :
         /\ scores[i] = zeta /\ preds[i] = 1
         /\ scores[j] > zeta /\ preds[j] = -1
         /\ scores[h] < zeta /\ preds[h] = 1

\* the sequence s holds every element of x exactly once
IsPassOver(s, x) ==
    /\ Len(s) = Len(x)
    /\ \A i \in 1..Len(x) : \E j \in 1..Len(s) : s[j] = x[i]
    /\ \A i, j \in 1..Len(s) : s[i] = s[j] => i = j

NoRepeats(s) == \A i, j \in 1..Len(s) : s[i] = s[j] => i = j

(* C2: a DataGetter over N >= 1 elements is a cycled iterator: every       *)
(* next() call returns a non-empty batch of elements of X and none signals *)
(* exhaustion; a call that finds data empty reloads it from a fresh        *)
(* shuffled pass over X and returns a batch of that pass (the returned     *)
(* batch and the batches left in data make up one whole pass).             *)
C2_CycledIterator ==
    /\ outcome # "IndexError"
    /\ calls > 0 =>
          /\ outcome = "batch"
          /\ returned # <<>>
          /\ Range(returned) \subseteq Range(X)
    /\ reloaded => IsPassOver(Flatten(Append(data, returned)), X)

C2_Witness ==
    /\ calls = MaxCalls /\ outcome = "batch" /\ reloaded
    /\ Len(X) = 1 /\ batch_size = 3

(* C3: with m = ceil(N / batch_size), the batches returned by the calls    *)
(* j*m+1 .. (j+1)*m together hold every element of X exactly once: inside  *)
(* a window nothing is repeated, a full window is a whole pass, and a      *)
(* reload happens exactly on the first call of every window but the first. *)
C3_PassCoversX ==
    LET m == CeilDiv(Len(X), batch_size) IN
    calls > 0 =>
        /\ NoRepeats(Flatten(window))
        /\ Range(Flatten(window)) \subseteq Range(X)
        /\ calls % m = 0 => /\ Len(window) = m
                            /\ IsPassOver(Flatten(window), X)
        /\ reloaded <=> (calls > 1 /\ StartsWindow(calls, m))

C3_Witness ==
    /\ Len(X) = 4 /\ batch_size = 3
    /\ calls = 6 /\ Len(window) = 2
    /\ IsPassOver(Flatten(window), X)

(* C4: every next() call returns a batch of exactly batch_size elements.   *)
C4_ExactBatchSize ==
    (calls > 0 /\ outcome = "batch") => Len(returned) = batch_size

(* C4, what the code does: a batch holds between 1 and batch_size          *)
(* elements, and the first batch returned of every pass holds              *)
(* N mod batch_size elements when that is not zero.                        *)
C4_ShortBatch ==
    /\ outcome = "batch" /\ Len(X) = 3 /\ batch_size = 2
    /\ calls = 1 /\ Len(returned) = 1

(* C5: make_atomized_training_set(X, T) for X of size (num_series, p) and  *)
(* T of size p returns num_series * p pairs, and the pair at index         *)
(* s*p + l is (X[s][l], T[l]).                                             *)
C5_AtomizedPairs ==
    pcAtom = "done" =>
        LET ns == Len(atomX)
            p == Len(atomT)
        IN /\ Len(atomized) = ns * p
           /\ \A s \in 0..(ns - 1), l \in 0..(p - 1) :
                atomized[s * p + l + 1] = <<atomX[s + 1][l + 1], atomT[l + 1]>>

C5_Witness ==
    /\ pcAtom = "done"
    /\ Len(atomX) = 2 /\ Len(atomT) = 2
    /\ atomT[1] # atomT[2]
    /\ atomX[1][2] # atomX[2][1]
    /\ Len(atomized) = 4
    /\ atomized[3] = <<atomX[2][1], atomT[1]>>

RECURSIVE Choose(_, _)
Choose(n, i) ==
    IF i = 0 THEN 1
    ELSE IF n = 0 THEN 0
    ELSE Choose(n - 1, i - 1) + Choose(n - 1, i)

RECURSIVE SumChoose(_, _)
SumChoose(n, i) == IF i <= 0 THEN 0 ELSE Choose(n, i) + SumChoose(n, i - 1)

RECURSIVE Parity(_, _)
Parity(S, bits) ==
    IF S = {} THEN 0
    ELSE LET w == CHOOSE v \in S : TRUE
         IN (bits[w] + Parity(S \ {w}, bits)) % 2

SetMax(S) == CHOOSE v \in S : \A u \in S : u <= v

SetMin(S) == CHOOSE v \in S : \A u \in S : v <= u

\* the elements of S in increasing order
RECURSIVE Ascending(_)
Ascending(S) == IF S = {} THEN <<>> ELSE <<SetMin(S)>> \o Ascending(S \ {SetMin(S)})

\* the number of RZ gates the claim gives D on n wires with locality k
ExpectedRZ == SumChoose(n_qubits, Min(Locality(n_qubits, k), n_qubits))

(* C6: D applies exactly one RZ for each non-empty subset of the n wires   *)
(* of size at most k (k = n when k is None), subsets by increasing size;   *)
(* the j-th RZ uses gamma[j], so the indices 0 .. m-1 are each read once,  *)
(* m being the sum over i = 1 .. min(k, n) of C(n, i), at most 2^n - 1.    *)
C6_OneRZPerSubset ==
    DQueueDone =>
        LET m == ExpectedRZ
            wanted == {S \in SUBSET (0..(n_qubits - 1)) :
                         S # {} /\ Cardinality(S) <= Locality(n_qubits, k)}
        IN /\ Len(rzlog) = m
           /\ reads = [j \in 1..m |-> j - 1]
           /\ \A j \in 1..m : rzlog[j].param = j - 1
           /\ {rzlog[j].support : j \in 1..m} = wanted
           /\ Cardinality(wanted) = m
           /\ \A i, j \in 1..m :
                i < j => Cardinality(rzlog[i].support) <= Cardinality(rzlog[j].support)
           /\ m <= Pow2(n_qubits) - 1

C6_Witness ==
    /\ DQueueDone /\ n_qubits = 3 /\ k = Some(2)
    /\ Len(rzlog) = 6 /\ reads = <<0, 1, 2, 3, 4, 5>>
    /\ rzlog[6].support = {1, 2}

(* C7: D is diagonal in the computational basis: every RZ acts on the last *)
(* wire of its subset while that wire holds the XOR of the subset's bits   *)
(* and every other wire holds its own bit or the XOR of a run of wires     *)
(* before it; between two subsets, and after the whole of D, every wire    *)
(* holds its original bit.                                                 *)
C7_DiagonalParity ==
    /\ \A j \in 1..Len(rzlog) :
         LET S == rzlog[j].support
             c == Ascending(S)
             q == rzlog[j].at
             len == Cardinality(S)
         IN /\ rzlog[j].wire = SetMax(S)
            /\ rzlog[j].bit = Parity(S, wires0)
            /\ q - (len - 1) >= 1
            /\ \A i \in 1..(len - 1) :
                 /\ tape[q - len + i].gate = "CNOT"
                 /\ tape[q - len + i].wires = <<c[i], c[i + 1]>>
                 /\ q + i <= Len(tape)
                 /\ tape[q + i].gate = "CNOT"
                 /\ tape[q + i].wires = <<c[len - i], c[len - i + 1]>>
    /\ (pcD = "run" /\ pos < Len(tape) /\ tape[pos + 1].gate = "RZ") =>
         LET w == tape[pos + 1].wires[1] IN
         /\ wires[w] = Parity(support[w], wires0)
         /\ Cardinality(support[w]) >= 1
    /\ DQueueDone =>
         /\ wires = wires0
         /\ \A w \in 0..(n_qubits - 1) : support[w] = {w}

C7_Witness ==
    /\ DQueueDone /\ n_qubits = 3 /\ k = None
    /\ wires0 = [w \in 0..2 |-> 1]
    /\ wires = wires0
    /\ Len(rzlog) = 7
    /\ rzlog[7].support = {0, 1, 2} /\ rzlog[7].bit = 1 /\ rzlog[7].wire = 2
    /\ rzlog[4].support = {0, 1} /\ rzlog[4].bit = 0

(* C8: get_probs applies U(xt), W(alpha), D(gamma * t) and the adjoint of  *)
(* W with the same alpha, in that order, all on wires 0 .. n_qubits-1 and  *)
(* from the all-zeros state, then measures all n_qubits wires; the         *)
(* projector returns element 0 of the probabilities, the probability of    *)
(* the all-zeros bitstring.  D being diagonal and the adjoint undoing W,   *)
(* the measured state is the one U(xt) prepared.                           *)
C8_CircuitOrder ==
    /\ Len(oplog) <= 4
    /\ \A j \in 1..Len(oplog) :
         /\ oplog[j].op = <<"U", "W", "D", "adjoint(W)">>[j]
         /\ oplog[j].arg = <<xt, alpha, Scaled(gamma, t), alpha>>[j]
         /\ oplog[j].wires = [w \in 0..(n_qubits - 1) |-> w]
    /\ pcProbs \in {"measured", "done"} =>
         /\ Len(oplog) = 4
         /\ Len(probs) = Pow2(n_qubits)
         /\ \A j \in 1..Len(probs) :
              probs[j] = IF BitsOf(j - 1, n_qubits) = xt THEN 1 ELSE 0
    /\ pcProbs = "done" =>
         /\ proj = probs[1]
         /\ proj = IF \A w \in 0..(n_qubits - 1) : wires[w] = 0 THEN 1 ELSE 0

C8_Witness ==
    /\ pcProbs = "done" /\ n_qubits = 2 /\ k = None
    /\ alpha = 3 /\ Len(rzlog) = 3
    /\ xt = [w \in 0..1 |-> 0] /\ proj = 1

C8_WitnessMiss ==
    /\ pcProbs = "done" /\ n_qubits = 2 /\ alpha = 1
    /\ xt = [w \in 0..1 |-> 1] /\ proj = 0 /\ probs[4] = 1

RECURSIVE SumSquaredMisses(_)
SumSquaredMisses(fc) ==
    IF fc = <<>> THEN 0
    ELSE LET f == Head(fc).value
         IN (f[2] - f[1]) * (f[2] - f[1]) + SumSquaredMisses(Tail(fc))

(* C9: get_loss evaluates F exactly once per element i of the batch, on    *)
(* (X_batch[i], T_batch[i]) with the same alpha, mu and sigma, and returns *)
(* (1 / (2 * batch size)) * sum [1 - F_i]^2 + P_tau(sigma).                *)
C9_DocumentedLoss ==
    /\ Len(Fcalls) = iLoss /\ Len(loss) = iLoss
    /\ \A i \in 1..Len(Fcalls) :
         /\ Fcalls[i].xt = X_batch[i] /\ Fcalls[i].t = T_batch[i]
         /\ Fcalls[i].alpha = alpha /\ Fcalls[i].mu = mu
         /\ Fcalls[i].sigma = sigma
    /\ pcLoss = "done" =>
         /\ Len(Fcalls) = Len(X_batch)
         /\ REq(lossResult,
                RAdd(<<SumSquaredMisses(Fcalls),
                       2 * Len(X_batch) * n_samples * n_samples>>,
                     ArctanPenalty(tau, sigma)))

C9_Witness ==
    /\ pcLoss = "done" /\ Len(X_batch) = 2 /\ n_samples = 2
    /\ X_batch[1] # X_batch[2] /\ T_batch[1] # T_batch[2]
    /\ Fcalls[1].value = <<0, 2>> /\ Fcalls[2].value = <<1, 2>>
    /\ tau = 1 /\ sigma = -1
    /\ REq(lossResult, <<23, 48>>)

C11_AnomalyScore ==
    /\ \A i \in 1..Len(scoreCalls) :
         /\ scoreCalls[i].xt = score_x[i] /\ scoreCalls[i].t = score_T[i]
         /\ scoreCalls[i].alpha = alpha /\ scoreCalls[i].mu = mu
         /\ scoreCalls[i].sigma = sigma
    /\ pcScore = "done" =>
         /\ Len(scoreCalls) = Len(score_T)
         /\ REq(scoreResult.mean,
                <<SumSquaredMisses(scoreCalls),
                  Len(score_T) * n_samples * n_samples>>)
         /\ RLeq(<<0, 1>>, scoreResult.mean)
         /\ REq(scoreResult.mean, <<0, 1>>) <=>
              \A i \in 1..Len(scoreCalls) : REq(scoreCalls[i].value, <<1, 1>>)
         /\ scoreResult.resolved = get_time_resolved
         /\ get_time_resolved =>
              /\ Len(scoreResult.terms) = Len(score_T)
              /\ \A i \in 1..Len(score_T) :
                   LET f == scoreCalls[i].value IN
                   REq(scoreResult.terms[i],
                       <<(f[2] - f[1]) * (f[2] - f[1]), f[2] * f[2]>>)

C11_Witness ==
    /\ pcScore = "done" /\ get_time_resolved
    /\ Len(score_T) = 2 /\ n_samples = 2
    /\ score_x[1] # score_x[2] /\ score_T[1] # score_T[2]
    /\ scoreCalls[1].value = <<2, 2>> /\ scoreCalls[2].value = <<1, 2>>
    /\ REq(scoreResult.terms[2], <<1, 4>>)
    /\ REq(scoreResult.mean, <<1, 8>>)

C11_WitnessZero ==
    /\ pcScore = "done" /\ ~get_time_resolved /\ Len(score_T) = 2
    /\ REq(scoreResult.mean, <<0, 1>>)

ExpectedEvents ==
    <<"start", "dispatch training", "result training",
      "dispatch tuning", "result tuning",
      "dispatch testing", "result testing", "stop">>

IsPrefix(a, b) == Len(a) <= Len(b) /\ SubSeq(b, 1, Len(a)) = a

(* C12: the script runs the three workflows strictly one after another:    *)
(* the server is started before the first dispatch and stopped after the   *)
(* last result, each result is awaited before the next dispatch, tuning    *)
(* and testing receive the opt_params of the finished training, and        *)
(* testing receives the thresholds of the finished tuning; so a run of the *)
(* script that has come to its end has done all eight steps in this order. *)
C12_WorkflowsInOrder ==
    /\ IsPrefix(events, ExpectedEvents)
    /\ lattice["tuning"] # "none" =>
         lattice["training"] = "done" /\ latticeIn.tuning_opt = latticeOut.opt_params
    /\ lattice["testing"] # "none" =>
         /\ lattice["tuning"] = "done"
         /\ latticeIn.testing_opt = latticeOut.opt_params
         /\ latticeIn.best_zetas = BestZetas(latticeOut.accs_list)
    /\ pcScript \in {"ended", "SyntaxError"} =>
         /\ events = ExpectedEvents
         /\ \A l \in Lattices : lattice[l] = "done"

\* the script as written has ended and nothing was started or dispatched
C12_NothingRan ==
    /\ line32 = "as_written" /\ pcScript = "SyntaxError"
    /\ events = <<>> /\ server = "down"
    /\ \A l \in Lattices : lattice[l] = "none"

\* the external orbitals: those neither core nor active
External == (0..(orbitals - 1)) \ (Range(core) \cup Range(active))

C13_WitnessExternal ==
    /\ pcChem = "defined"
    /\ core # <<>> /\ active # <<>> /\ External # {}

C15_BoxplotPartition ==
    pcPlot = "plotted" =>
      /\ boxIndices[1] = 0..(num_series - 1)
      /\ boxIndices[2] = num_series..(Len(scores_list) - 1)
      /\ boxIndices[1] \cap boxIndices[2] = {}
      /\ boxIndices[1] \cup boxIndices[2] = 0..(Len(scores_list) - 1)
      /\ boxNormal = norm_scores
      /\ boxAnomalous = anom_scores

\* the last anomalous score is in neither group
C15_LastScoreLeftOut ==
    /\ pcPlot = "plotted" /\ num_series = 2
    /\ boxNormal = norm_scores
    /\ Len(scores_list) = 4 /\ Len(boxAnomalous) = 1
    /\ boxAnomalous = <<anom_scores[1]>>
    /\ boxIndices[1] \cap boxIndices[2] = {}
    /\ 3 \notin (boxIndices[1] \cup boxIndices[2])

====
